---- MODULE Spec2Model ----
(***************************************************************************)
(* Model of source_linkedin_ads/analytics.py: the field chunker            *)
(* (chunk_analytics_fields), the date windower (make_date_slices), the     *)
(* slice builder (make_analytics_slices) and the result merger             *)
(* (merge_chunks).  Each component is a state machine over its own         *)
(* variables; the specifications SpecChunk, SpecDate, SpecSlice and        *)
(* SpecMerge run one component each and leave the others idle.             *)
(***************************************************************************)
EXTENDS Integers, Sequences, FiniteSets, TLC

VARIABLES
    \* chunk_analytics_fields
    fields, fields_chunk_size, chunks, chunk_pc,
    \* make_date_slices
    start_date, window_in_days, start, end, date_slices, date_pc,
    \* make_analytics_slices
    now, slice_start_date, base_slice, fields_idx, analytics_slices, dicts,
    windows_seen, slice_pc,
    \* merge_chunks
    chunked_result, merge_by_key, records, records0, merged, result, merge_pc

chunk_vars == <<fields, fields_chunk_size, chunks, chunk_pc>>
date_vars  == <<start_date, window_in_days, start, end, date_slices, date_pc>>
slice_vars == <<now, slice_start_date, base_slice, fields_idx, analytics_slices,
                dicts, windows_seen, slice_pc>>
merge_vars == <<chunked_result, merge_by_key, records, records0, merged, result,
                merge_pc>>
vars == <<chunk_vars, date_vars, slice_vars, merge_vars>>

\* ------------------------------------------------------------------------
\* Generic helpers
\* ------------------------------------------------------------------------
Range(s) == {s[i] : i \in 1..Len(s)}

Min(a, b) == IF a <= b THEN a ELSE b

\* ------------------------------------------------------------------------
\* Module constants
\* ------------------------------------------------------------------------
FIELDS_CHUNK_SIZE == 17
WINDOW_IN_DAYS == 30

ANALYTICS_FIELDS_V2 ==
    << "actionClicks", "adUnitClicks", "approximateUniqueImpressions",
       "cardClicks", "cardImpressions", "clicks", "commentLikes", "comments",
       "companyPageClicks", "conversionValueInLocalCurrency",
       "costInLocalCurrency", "costInUsd", "dateRange",
       "externalWebsiteConversions", "externalWebsitePostClickConversions",
       "externalWebsitePostViewConversions", "follows", "fullScreenPlays",
       "impressions", "landingPageClicks",
       "leadGenerationMailContactInfoShares",
       "leadGenerationMailInterestedClicks", "likes", "oneClickLeadFormOpens",
       "oneClickLeads", "opens", "otherEngagements", "pivot", "pivotValue",
       "pivotValues", "reactions", "sends", "shares", "textUrlClicks",
       "totalEngagements", "videoCompletions", "videoFirstQuartileCompletions",
       "videoMidpointCompletions", "videoStarts",
       "videoThirdQuartileCompletions", "videoViews", "viralCardClicks",
       "viralCardImpressions", "viralClicks", "viralCommentLikes",
       "viralComments", "viralCompanyPageClicks",
       "viralExternalWebsiteConversions",
       "viralExternalWebsitePostClickConversions",
       "viralExternalWebsitePostViewConversions", "viralFollows",
       "viralFullScreenPlays", "viralImpressions", "viralLandingPageClicks",
       "viralLikes", "viralOneClickLeadFormOpens", "viralOneClickLeads",
       "viralOtherEngagements", "viralReactions", "viralShares",
       "viralTotalEngagements", "viralVideoCompletions",
       "viralVideoFirstQuartileCompletions", "viralVideoMidpointCompletions",
       "viralVideoStarts", "viralVideoThirdQuartileCompletions",
       "viralVideoViews" >>

BASE_ANALLYTICS_FIELDS == << "dateRange", "pivot", "pivotValue" >>

\* ------------------------------------------------------------------------
\* chunk_analytics_fields
\* ------------------------------------------------------------------------
\* Python's s[lo : hi] for 0 <= lo <= hi (0-based, hi exclusive, clamped).
PySlice(s, lo, hi) == SubSeq(s, lo + 1, Min(hi, Len(s)))

\* Python's range(0, n, step) for step > 0, as a sequence.
PyRange(n, step) == [i \in 1..((n + step - 1) \div step) |-> (i - 1) * step]

\* The slicing generator: one consecutive group per offset of the range.
MakeChunksOffByOne(fs, size) ==
    [i \in 1..Len(PyRange(Len(fs), size)) |->
        PySlice(fs, PyRange(Len(fs), size)[i], PyRange(Len(fs), size)[i] + size + 1)]

MakeChunks(fs, size) ==
    [i \in 1..Len(PyRange(Len(fs), size)) |->
        PySlice(fs, PyRange(Len(fs), size)[i], PyRange(Len(fs), size)[i] + size)]

\* The inner loop: append every base field the chunk does not hold yet.
AppendBaseFieldsUnchecked(chunk, base) == chunk \o base

RECURSIVE AppendBaseFields(_, _)
AppendBaseFields(chunk, base) ==
    IF base = << >> THEN chunk
    ELSE IF Head(base) \in Range(chunk)
         THEN AppendBaseFields(chunk, Tail(base))
         ELSE AppendBaseFields(Append(chunk, Head(base)), Tail(base))

chunk_analytics_fields(fs, size) ==
    [i \in 1..Len(MakeChunks(fs, size)) |->
        AppendBaseFields(MakeChunks(fs, size)[i], BASE_ANALLYTICS_FIELDS)]

\* Input space of the chunker: small catalogs of distinct names drawn from the
\* base fields and a few other catalog fields, with small chunk sizes; the
\* module's own catalog with the default size; and every catalog of
\* 2 * FIELDS_CHUNK_SIZE distinct fields that holds the three base fields.
NumOtherFields == 2
MaxCatalogLen == 4
MaxChunkSize == 3

OtherFields ==
    SelectSeq(ANALYTICS_FIELDS_V2, LAMBDA f : f \notin Range(BASE_ANALLYTICS_FIELDS))

FieldUniverse ==
    Range(BASE_ANALLYTICS_FIELDS) \cup {OtherFields[i] : i \in 1..NumOtherFields}

IsDistinct(s) == \A i, j \in 1..Len(s) : i # j => s[i] # s[j]

SmallCatalogs ==
    {s \in UNION {[1..n -> FieldUniverse] : n \in 0..MaxCatalogLen} : IsDistinct(s)}

ExampleLen == 2 * FIELDS_CHUNK_SIZE

\* The catalog of ExampleLen fields with the base fields at positions p[1..3].
ExampleCatalog(p) ==
    [i \in 1..ExampleLen |->
        IF \E k \in 1..Len(BASE_ANALLYTICS_FIELDS) : p[k] = i
        THEN BASE_ANALLYTICS_FIELDS[CHOOSE k \in 1..Len(BASE_ANALLYTICS_FIELDS) : p[k] = i]
        ELSE OtherFields[i - Cardinality({k \in 1..Len(BASE_ANALLYTICS_FIELDS) : p[k] < i})]]

ExampleCatalogs ==
    {ExampleCatalog(p) : p \in {q \in [1..Len(BASE_ANALLYTICS_FIELDS) -> 1..ExampleLen] : IsDistinct(q)}}

ChunkInputs ==
    (SmallCatalogs \X (1..MaxChunkSize))
        \cup (ExampleCatalogs \X {FIELDS_CHUNK_SIZE})
        \cup {<<ANALYTICS_FIELDS_V2, FIELDS_CHUNK_SIZE>>}

ChunkIdle ==
    /\ fields = << >> /\ fields_chunk_size = 1 /\ chunks = << >>
    /\ chunk_pc = "idle"

ChunkInit ==
    /\ \E in \in ChunkInputs : fields = in[1] /\ fields_chunk_size = in[2]
    /\ chunks = << >>
    /\ chunk_pc = "call"

\* One call of chunk_analytics_fields(fields, fields_chunk_size).
ChunkCall ==
    /\ chunk_pc = "call"
    /\ chunks' = chunk_analytics_fields(fields, fields_chunk_size)
    /\ chunk_pc' = "done"
    /\ UNCHANGED <<fields, fields_chunk_size>>
    /\ UNCHANGED <<date_vars, slice_vars, merge_vars>>

\* ------------------------------------------------------------------------
\* make_date_slices
\* ------------------------------------------------------------------------
\* A pendulum DateTime is modelled as an instant: a number of ticks since
\* 1970-01-01T00:00 UTC, TicksPerDay ticks to the day.  A date string is a
\* record [year, month, day].
TicksPerDay == 2

\* Days since 1970-01-01 of a proleptic Gregorian calendar date.
DaysFromCivil(y, m, d) ==
    LET yy  == IF m <= 2 THEN y - 1 ELSE y
        era == yy \div 400
        yoe == yy - era * 400
        mp  == IF m > 2 THEN m - 3 ELSE m + 9
        doy == (153 * mp + 2) \div 5 + d - 1
        doe == yoe * 365 + yoe \div 4 - yoe \div 100 + doy
    IN  era * 146097 + doe - 719468

\* The calendar date of a day number (days since 1970-01-01).
CivilFromDays(n) ==
    LET z   == n + 719468
        era == z \div 146097
        doe == z - era * 146097
        yoe == (doe - doe \div 1460 + doe \div 36524 - doe \div 146096) \div 365
        doy == doe - (365 * yoe + yoe \div 4 - yoe \div 100)
        mp  == (5 * doy + 2) \div 153
        d   == doy - (153 * mp + 2) \div 5 + 1
        m   == IF mp < 10 THEN mp + 3 ELSE mp - 9
        y   == yoe + era * 400 + (IF m <= 2 THEN 1 ELSE 0)
    IN  [year |-> y, month |-> m, day |-> d]

\* pdm.parse of a "YYYY-MM-DD" string: midnight UTC of that date.
Parse(date) == DaysFromCivil(date.year, date.month, date.day) * TicksPerDay

\* The .day / .month / .year attributes of a DateTime.
DateOf(t) == CivilFromDays(t \div TicksPerDay)

\* DateTime.add(days = n).
AddDays(t, n) == t + n * TicksPerDay

\* The date_slice dict built by one iteration.
DateSlice(s, slice_end_date) ==
    ("start.day" :> DateOf(s).day) @@ ("start.month" :> DateOf(s).month)
        @@ ("start.year" :> DateOf(s).year)
        @@ ("end.day" :> DateOf(slice_end_date).day)
        @@ ("end.month" :> DateOf(slice_end_date).month)
        @@ ("end.year" :> DateOf(slice_end_date).year)

\* The cursor after one iteration.
NextStartDayAfter(slice_end_date, e) ==
    IF slice_end_date <= e THEN slice_end_date + TicksPerDay ELSE e

NextStart(slice_end_date, e) == IF slice_end_date <= e THEN slice_end_date ELSE e

\* Input space of the windower.
MaxStartOffset == 1
MaxEndDays == 47
MaxSmallWindow == 3

BaseDay == DaysFromCivil(2020, 12, 31)

StartDates == {CivilFromDays(BaseDay + k) : k \in 0..MaxStartOffset}

EndInstants == {BaseDay * TicksPerDay + k : k \in 0..(MaxEndDays * TicksPerDay)}

Windows == {-1, 0} \cup (1..MaxSmallWindow) \cup {WINDOW_IN_DAYS}

\* A cap on the list's length, above what any positive window needs.
MaxSlices == MaxEndDays + 2

DateIdle ==
    /\ start_date = [year |-> 1970, month |-> 1, day |-> 1]
    /\ window_in_days = WINDOW_IN_DAYS
    /\ start = 0 /\ end = 0 /\ date_slices = << >>
    /\ date_pc = "idle"

\* State after the first three statements of make_date_slices.
DateInit ==
    /\ start_date \in StartDates
    /\ window_in_days \in Windows
    /\ end \in EndInstants
    /\ start = Parse(start_date)
    /\ date_slices = << >>
    /\ date_pc = "loop"

\* One iteration of the while loop.
DateIterate ==
    /\ date_pc = "loop"
    /\ start < end
    /\ Len(date_slices) < MaxSlices
    /\ LET slice_end_date == AddDays(start, window_in_days)
       IN  /\ date_slices' =
                Append(date_slices, [dateRange |-> DateSlice(start, slice_end_date)])
           /\ start' = NextStart(slice_end_date, end)
    /\ UNCHANGED <<start_date, window_in_days, end, date_pc>>
    /\ UNCHANGED <<chunk_vars, slice_vars, merge_vars>>

\* The loop condition fails: return date_slices.
DateReturn ==
    /\ date_pc = "loop"
    /\ ~(start < end)
    /\ date_pc' = "done"
    /\ UNCHANGED <<start_date, window_in_days, start, end, date_slices>>
    /\ UNCHANGED <<chunk_vars, slice_vars, merge_vars>>

\* The whole call, for a positive window (used by make_analytics_slices).
RECURSIVE DateLoop(_, _, _, _)
DateLoop(s, w, e, acc) ==
    IF s < e
    THEN DateLoop(NextStart(AddDays(s, w), e), w, e,
                  Append(acc, [dateRange |-> DateSlice(s, AddDays(s, w))]))
    ELSE acc

make_date_slices(sd, w, e) == DateLoop(Parse(sd), w, e, << >>)

\* ------------------------------------------------------------------------
\* make_analytics_slices
\* ------------------------------------------------------------------------
\* Python dicts are objects: dicts is the heap, a sequence whose index is the
\* object's identity and whose element is the dict's content (a function from
\* keys to values).  A value that is itself a dict is held as [ref |-> id].

\* dict.update(k = v) / dict[k] = v on a dict's content.
SetKey(d, k, v) == [x \in DOMAIN d \cup {k} |-> IF x = k THEN v ELSE d[x]]

\* ",".join(map(str, fields_set))
RECURSIVE Join(_)
Join(fs) ==
    IF fs = << >> THEN ""
    ELSE IF Len(fs) = 1 THEN fs[1]
    ELSE fs[1] \o "," \o Join(Tail(fs))

\* chunk_analytics_fields() with its default arguments.
DefaultChunks == chunk_analytics_fields(ANALYTICS_FIELDS_V2, FIELDS_CHUNK_SIZE)

\* Body of the inner loop for one date_slice (held at heap index ref):
\* base_slice.update(**date_slice); analytics_slices.append(base_slice.copy()).
\* st = [heap, out]: the heap and the analytics_slices list of object ids.
EmitSliceNoCopy(st, ref) ==
    [heap |-> [st.heap EXCEPT ![base_slice] = SetKey(@, "dateRange", [ref |-> ref])],
     out  |-> Append(st.out, base_slice)]

EmitSlice(st, ref) ==
    LET updated == [st.heap EXCEPT ![base_slice] = SetKey(@, "dateRange", [ref |-> ref])]
    IN  [heap |-> Append(updated, updated[base_slice]),
         out  |-> Append(st.out, Len(updated) + 1)]

RECURSIVE EmitAll(_, _)
EmitAll(st, refs) ==
    IF refs = << >> THEN st ELSE EmitAll(EmitSlice(st, Head(refs)), Tail(refs))

\* The content of a slice with its nested dateRange dict read through.
Deref(heap, id) ==
    [k \in DOMAIN heap[id] |->
        IF k = "dateRange" THEN heap[heap[id][k].ref] ELSE heap[id][k]]

\* Input space of the slice builder: the Base Context returned by make_slice
\* (a dict of scalars), the start date, and the wall clock, which starts a
\* day short of one full window after the first start date.
MaxClockTicks == 6
MaxCampaign == 2

BaseContexts == {("campaign_id" :> c) : c \in 1..MaxCampaign}

ClockStart == AddDays(BaseDay * TicksPerDay, WINDOW_IN_DAYS - 1)

ClockEnd == ClockStart + MaxClockTicks

SliceIdle ==
    /\ now = 0 /\ slice_start_date = [year |-> 1970, month |-> 1, day |-> 1]
    /\ base_slice = 1 /\ fields_idx = 1 /\ analytics_slices = << >>
    /\ dicts = << >> /\ windows_seen = << >>
    /\ slice_pc = "idle"

\* State after base_slice = make_slice(...) and analytics_slices = [].
SliceInit ==
    /\ now \in ClockStart..ClockEnd
    /\ slice_start_date \in StartDates
    /\ base_slice = 1
    /\ \E ctx \in BaseContexts : dicts = <<ctx>>
    /\ fields_idx = 1
    /\ analytics_slices = << >>
    /\ windows_seen = << >>
    /\ slice_pc = "loop"

\* One iteration of the outer loop: the fields update, the call of
\* make_date_slices(start_date), whose end is the clock read at that call,
\* and the whole inner loop.  windows_seen records what each call returned.
SliceChunkIteration ==
    /\ slice_pc = "loop"
    /\ fields_idx <= Len(DefaultChunks)
    /\ LET fields_set == DefaultChunks[fields_idx]
           ws    == make_date_slices(slice_start_date, WINDOW_IN_DAYS, now)
           heap1 == [dicts EXCEPT ![base_slice] = SetKey(@, "fields", Join(fields_set))]
           heap2 == heap1 \o [i \in 1..Len(ws) |-> ws[i].dateRange]
           refs  == [i \in 1..Len(ws) |-> Len(heap1) + i]
           st    == EmitAll([heap |-> heap2, out |-> analytics_slices], refs)
       IN  /\ dicts' = st.heap
           /\ analytics_slices' = st.out
           /\ windows_seen' = Append(windows_seen, ws)
    /\ fields_idx' = fields_idx + 1
    /\ UNCHANGED <<now, slice_start_date, base_slice, slice_pc>>
    /\ UNCHANGED <<chunk_vars, date_vars, merge_vars>>

\* The outer loop is exhausted: return analytics_slices.
SliceReturn ==
    /\ slice_pc = "loop"
    /\ fields_idx > Len(DefaultChunks)
    /\ slice_pc' = "done"
    /\ UNCHANGED <<now, slice_start_date, base_slice, fields_idx, analytics_slices,
                   dicts, windows_seen>>
    /\ UNCHANGED <<chunk_vars, date_vars, merge_vars>>

\* Time passes while the function runs.
SliceTick ==
    /\ slice_pc = "loop"
    /\ now < ClockEnd
    /\ now' = now + 1
    /\ UNCHANGED <<slice_start_date, base_slice, fields_idx, analytics_slices,
                   dicts, windows_seen, slice_pc>>
    /\ UNCHANGED <<chunk_vars, date_vars, merge_vars>>

\* The caller changes one entry of one returned slice: a top-level entry, or
\* a component inside its nested dateRange dict.
Mutations == {<<"fields", "">>, <<"campaign_id", 0>>}

MutatedComponents == {"start.day", "end.year"}

SliceMutate ==
    /\ slice_pc = "done"
    /\ \E k \in 1..Len(analytics_slices) :
          \/ \E m \in Mutations :
                dicts' = [dicts EXCEPT ![analytics_slices[k]] = SetKey(@, m[1], m[2])]
          \/ \E comp \in MutatedComponents :
                dicts' = [dicts EXCEPT ![dicts[analytics_slices[k]]["dateRange"].ref] =
                                          SetKey(@, comp, 0)]
    /\ slice_pc' = "mutated"
    /\ UNCHANGED <<now, slice_start_date, base_slice, fields_idx, analytics_slices,
                   windows_seen>>
    /\ UNCHANGED <<chunk_vars, date_vars, merge_vars>>

\* ------------------------------------------------------------------------
\* merge_chunks
\* ------------------------------------------------------------------------
\* The partial records are dict objects: records is the heap (index = the
\* object's identity, element = its content), chunked_result a sequence of
\* collections of object ids.  merged is the insertion-ordered dict, a
\* sequence of [key, id] entries; result is the returned list of object ids.

\* dict.update(other) on a dict's content.
UpdateKeepOld(d, other) ==
    [x \in DOMAIN d \cup DOMAIN other |-> IF x \in DOMAIN d THEN d[x] ELSE other[x]]

Update(d, other) ==
    [x \in DOMAIN d \cup DOMAIN other |-> IF x \in DOMAIN other THEN other[x] ELSE d[x]]

\* The position of head_key in merged, 0 when it is not in it.
MergedIndex(m, head_key) ==
    IF \E i \in 1..Len(m) : m[i].key = head_key
    THEN CHOOSE i \in 1..Len(m) : m[i].key = head_key
    ELSE 0

\* Body of the inner loop for the record object id.
\* st = [heap, merged, status].
MergeRecordSkipMissing(st, id, by) ==
    LET key == st.heap[id]
    IN  IF by \notin DOMAIN key
        THEN st
        ELSE LET head_key == key[by]
                 pos == MergedIndex(st.merged, head_key)
             IN  IF pos # 0
                 THEN [st EXCEPT !.heap[st.merged[pos].id] = Update(@, key)]
                 ELSE [st EXCEPT !.merged = Append(@, [key |-> head_key, id |-> id])]

MergeRecord(st, id, by) ==
    LET key == st.heap[id]
    IN  IF by \notin DOMAIN key
        THEN [st EXCEPT !.status = "KeyError"]
        ELSE LET head_key == key[by]
                 pos == MergedIndex(st.merged, head_key)
             IN  IF pos # 0
                 THEN [st EXCEPT !.heap[st.merged[pos].id] = Update(@, key)]
                 ELSE [st EXCEPT !.merged = Append(@, [key |-> head_key, id |-> id])]

\* The records of all collections in traversal order.
RECURSIVE Flatten(_)
Flatten(cr) == IF cr = << >> THEN << >> ELSE Head(cr) \o Flatten(Tail(cr))

\* The two nested loops; a raised KeyError ends them.
RECURSIVE MergeLoop(_, _, _)
MergeLoop(st, ids, by) ==
    IF ids = << >> \/ st.status = "KeyError" THEN st
    ELSE MergeLoop(MergeRecord(st, Head(ids), by), Tail(ids), by)

\* Input space of the merger.
MaxRecords == 3

FieldValues == ("id" :> {1, 2}) @@ ("a" :> {10, 20}) @@ ("b" :> {100})

AllRecords ==
    UNION {{r \in [D -> UNION {FieldValues[f] : f \in D}] :
                \A f \in D : r[f] \in FieldValues[f]} : D \in SUBSET (DOMAIN FieldValues)}

\* Every record that holds an id, and the records of one field that do not.
RecordUniverse ==
    {r \in AllRecords : "id" \in DOMAIN r \/ DOMAIN r = {"a"}}

\* The ways of handing n record objects over: as no collection (n = 0), as
\* one collection, or cut into two consecutive collections.
Ids(lo, hi) == [j \in 1..(hi - lo + 1) |-> lo + j - 1]

Collections(n) ==
    (IF n = 0 THEN {<< >>} ELSE {})
        \cup {<<Ids(1, n)>>}
        \cup {<<Ids(1, k), Ids(k + 1, n)>> : k \in 0..n}

MergeIdle ==
    /\ chunked_result = << >> /\ merge_by_key = "id" /\ records = << >>
    /\ records0 = << >> /\ merged = << >> /\ result = << >>
    /\ merge_pc = "idle"

\* State at the call: records0 remembers the input records' contents.
MergeInit ==
    /\ records \in UNION {[1..n -> RecordUniverse] : n \in 0..MaxRecords}
    /\ records0 = records
    /\ chunked_result \in Collections(Len(records))
    /\ merge_by_key = "id"
    /\ merged = << >>
    /\ result = << >>
    /\ merge_pc = "call"

\* One call of merge_chunks(chunked_result, merge_by_key).
MergeCall ==
    /\ merge_pc = "call"
    /\ LET st == MergeLoop([heap |-> records, merged |-> << >>, status |-> "ok"],
                           Flatten(chunked_result), merge_by_key)
       IN  /\ records' = st.heap
           /\ merged' = st.merged
           /\ IF st.status = "KeyError"
              THEN result' = << >> /\ merge_pc' = "KeyError"
              ELSE /\ result' = [i \in 1..Len(st.merged) |-> st.merged[i].id]
                   /\ merge_pc' = "returned"
    /\ UNCHANGED <<chunked_result, merge_by_key, records0>>
    /\ UNCHANGED <<chunk_vars, date_vars, slice_vars>>

\* ------------------------------------------------------------------------
\* Specifications
\* ------------------------------------------------------------------------
InitChunk == ChunkInit /\ DateIdle /\ SliceIdle /\ MergeIdle

SpecChunk == InitChunk /\ [][ChunkCall]_vars

InitDate == ChunkIdle /\ DateInit /\ SliceIdle /\ MergeIdle

DateNext == DateIterate \/ DateReturn

SpecDate == InitDate /\ [][DateNext]_vars

InitSlice == ChunkIdle /\ DateIdle /\ SliceInit /\ MergeIdle

SliceNext == SliceChunkIteration \/ SliceTick \/ SliceReturn \/ SliceMutate

SpecSlice == InitSlice /\ [][SliceNext]_vars

InitMerge == ChunkIdle /\ DateIdle /\ SliceIdle /\ MergeInit

SpecMerge == InitMerge /\ [][MergeCall]_vars

\* ------------------------------------------------------------------------
\* Properties of chunk_analytics_fields (SpecChunk)
\* ------------------------------------------------------------------------
\* The i-th consecutive group of at most M catalog fields.
Group(C, M, i) == [j \in 1..Min(M, Len(C) - (i - 1) * M) |-> C[(i - 1) * M + j]]

\* The base fields absent from a group, in base-field-list order.
Missing(g) == SelectSeq(BASE_ANALLYTICS_FIELDS, LAMBDA b : \A j \in 1..Len(g) : g[j] # b)

\* The least k with k * M >= n, i.e. ceil(n / M).
CeilDiv(n, M) == CHOOSE k \in 0..n : k * M >= n /\ (k = 0 \/ (k - 1) * M < n)

\* Each chunk without the base fields appended to it, concatenated.
RECURSIVE StripAndConcat(_, _, _)
StripAndConcat(cs, C, M) ==
    IF cs = << >> THEN << >>
    ELSE StripAndConcat(SubSeq(cs, 1, Len(cs) - 1), C, M)
            \o SubSeq(cs[Len(cs)], 1,
                      Len(cs[Len(cs)]) - Len(Missing(Group(C, M, Len(cs)))))

\* C1: for a catalog C of distinct names and a size M > 0, the result is
\* ceil(|C|/M) chunks; chunk i is the i-th consecutive group of C followed by
\* exactly the base fields absent from that group, in base-field-list order.
\* So every chunk holds every base field, its length is
\* min(M, remaining) + (number of missing base fields) <= M + 3, stripping the
\* appended fields and concatenating gives C back, and an empty catalog gives
\* no chunk.
C1_ChunksAreGroupsPlusMissingBase ==
    chunk_pc = "done" =>
        LET C == fields
            M == fields_chunk_size
        IN  /\ Len(chunks) = CeilDiv(Len(C), M)
            /\ \A i \in 1..Len(chunks) :
                  /\ chunks[i] = Group(C, M, i) \o Missing(Group(C, M, i))
                  /\ \A b \in Range(BASE_ANALLYTICS_FIELDS) : b \in Range(chunks[i])
                  /\ Len(chunks[i]) =
                        Min(M, Len(C) - (i - 1) * M) + Len(Missing(Group(C, M, i)))
                  /\ Len(chunks[i]) <= M + Len(BASE_ANALLYTICS_FIELDS)
            /\ StripAndConcat(chunks, C, M) = C
            /\ (C = << >> => chunks = << >>)

\* A call that returned several chunks, the last group shorter than M, some
\* chunk with some but not all base fields appended.
C1_Witness ==
    /\ chunk_pc = "done"
    /\ Len(chunks) >= 2
    /\ Len(fields) % fields_chunk_size # 0
    /\ \E i \in 1..Len(chunks) :
          Len(Missing(Group(fields, fields_chunk_size, i))) \in {1, 2}

\* The case of C9: a catalog of 2 * 17 distinct fields holding the three base
\* fields, chunked by 17.
C9_Case ==
    /\ chunk_pc = "done"
    /\ Len(fields) = ExampleLen
    /\ fields_chunk_size = FIELDS_CHUNK_SIZE
    /\ \A b \in Range(BASE_ANALLYTICS_FIELDS) : b \in Range(fields)

\* C9 as stated: such a catalog gives exactly 2 chunks of 17 fields each,
\* no base field being appended to either.
C9_TwoChunksOfSeventeen ==
    C9_Case =>
        /\ Len(chunks) = 2
        /\ \A i \in 1..Len(chunks) :
              /\ Len(chunks[i]) = FIELDS_CHUNK_SIZE
              /\ chunks[i] = Group(fields, FIELDS_CHUNK_SIZE, i)

\* C9 amended: such a catalog gives exactly 2 chunks; each is its group of 17
\* catalog fields followed by the base fields lying in the other group, so
\* three base fields are appended in total and the two lengths sum to 37.
C9_TwoChunksWithThreeAppended ==
    C9_Case =>
        /\ Len(chunks) = 2
        /\ \A i \in 1..2 :
              /\ SubSeq(chunks[i], 1, FIELDS_CHUNK_SIZE) =
                    Group(fields, FIELDS_CHUNK_SIZE, i)
              /\ Len(chunks[i]) = FIELDS_CHUNK_SIZE +
                    Cardinality(Range(BASE_ANALLYTICS_FIELDS)
                                  \cap Range(Group(fields, FIELDS_CHUNK_SIZE, 3 - i)))
        /\ Len(chunks[1]) + Len(chunks[2]) =
              2 * FIELDS_CHUNK_SIZE + Len(BASE_ANALLYTICS_FIELDS)

\* Such a call with all three base fields in the first group: the first chunk
\* has 17 fields and the second 20.
C9_Witness ==
    /\ C9_Case
    /\ Len(chunks[1]) = FIELDS_CHUNK_SIZE
    /\ Len(chunks[2]) = FIELDS_CHUNK_SIZE + Len(BASE_ANALLYTICS_FIELDS)

\* ------------------------------------------------------------------------
\* Properties of make_date_slices (SpecDate)
\* ------------------------------------------------------------------------
\* The start date and the emitted end date of a window, as calendar dates.
WindowStart(w) ==
    [year |-> w.dateRange["start.year"], month |-> w.dateRange["start.month"],
     day |-> w.dateRange["start.day"]]

WindowEnd(w) ==
    [year |-> w.dateRange["end.year"], month |-> w.dateRange["end.month"],
     day |-> w.dateRange["end.day"]]

DayNumber(date) == DaysFromCivil(date.year, date.month, date.day)

\* C2: for W >= 1 and start < end, the first window starts at start, each
\* later window starts on the emitted end date of the one before it, and
\* every non-final window's emitted end date is W days after its start date;
\* for start >= end nothing is emitted.
C2_WindowsContiguous ==
    (date_pc = "done" /\ window_in_days >= 1) =>
        IF Parse(start_date) < end
        THEN /\ Len(date_slices) >= 1
             /\ WindowStart(date_slices[1]) = start_date
             /\ \A i \in 1..(Len(date_slices) - 1) :
                   /\ WindowStart(date_slices[i + 1]) = WindowEnd(date_slices[i])
                   /\ DayNumber(WindowEnd(date_slices[i]))
                         - DayNumber(WindowStart(date_slices[i])) = window_in_days
        ELSE date_slices = << >>

\* A finished call that emitted at least three windows, across a month's end,
\* towards an end that is not midnight.
C2_Witness ==
    /\ date_pc = "done"
    /\ window_in_days >= 2
    /\ Len(date_slices) >= 3
    /\ end % TicksPerDay # 0
    /\ WindowStart(date_slices[1]).month # WindowEnd(date_slices[3]).month

\* C3: for W >= 1 and start < end, the emitted end date of the final window
\* is the end date, and no emitted end date lies after end.
C3_LastWindowClipped ==
    (date_pc = "done" /\ window_in_days >= 1 /\ Parse(start_date) < end) =>
        /\ WindowEnd(date_slices[Len(date_slices)]) = DateOf(end)
        /\ \A i \in 1..Len(date_slices) :
              DayNumber(WindowEnd(date_slices[i])) <= DayNumber(DateOf(end))

\* C10: whatever the window length, every iteration run while cursor < end
\* strictly increases the cursor, and leaves it at end once
\* cursor + window_in_days >= end.
C10_CursorStrictlyIncreases ==
    [][(date_pc = "loop" /\ start < end) =>
          /\ start' > start
          /\ (AddDays(start, window_in_days) >= end => start' = end)]_vars

\* The reported divergence of C3: the spec's own example, start 2021-01-01,
\* window 30, end 2021-02-15, gives a second window that ends on 2021-03-02.
C3_Example ==
    /\ date_pc = "done"
    /\ start_date = [year |-> 2021, month |-> 1, day |-> 1]
    /\ window_in_days = WINDOW_IN_DAYS
    /\ end = Parse([year |-> 2021, month |-> 2, day |-> 15])
    /\ Len(date_slices) = 2
    /\ WindowEnd(date_slices[1]) = [year |-> 2021, month |-> 1, day |-> 31]
    /\ WindowStart(date_slices[2]) = [year |-> 2021, month |-> 1, day |-> 31]
    /\ WindowEnd(date_slices[2]) = [year |-> 2021, month |-> 3, day |-> 2]

\* ------------------------------------------------------------------------
\* Properties of make_analytics_slices (SpecSlice)
\* ------------------------------------------------------------------------
\* The returned slices by content, nested dateRange dicts read through.
Out == [k \in 1..Len(analytics_slices) |-> Deref(dicts, analytics_slices[k])]

\* The Base Context: what make_slice put into base_slice.
BaseContext ==
    [k \in DOMAIN dicts[base_slice] \ {"fields", "dateRange"} |-> dicts[base_slice][k]]

\* The slice of chunk c and window w, built as a fresh value.
SliceOf(c, w) ==
    SetKey(SetKey(BaseContext, "fields", Join(DefaultChunks[c])), "dateRange", w.dateRange)

\* Chunk-major product of the first n chunks with the window lists ws[1..n].
RECURSIVE Product(_, _)
Product(n, ws) ==
    IF n = 0 THEN << >>
    ELSE Product(n - 1, ws) \o [j \in 1..Len(ws[n]) |-> SliceOf(n, ws[n][j])]

\* The windows the returned slices of the first chunk carry.
FirstChunkWindows ==
    LET mine == SelectSeq(Out, LAMBDA sl : sl["fields"] = Join(DefaultChunks[1]))
    IN  [j \in 1..Len(mine) |-> [dateRange |-> mine[j]["dateRange"]]]

\* C4: the result is the chunk-major cartesian product of the field chunks
\* and one single sequence of date windows, so its length is
\* (number of chunks) x (number of windows), whatever the clock does between
\* the per-chunk calls of make_date_slices.
C4_CartesianProduct ==
    slice_pc = "done" =>
        /\ Len(Out) = Len(DefaultChunks) * Len(FirstChunkWindows)
        /\ Out = Product(Len(DefaultChunks),
                         [c \in 1..Len(DefaultChunks) |-> FirstChunkWindows])

\* C5: at return the k-th slice holds the Base Context, the joined fields of
\* its own chunk and the components of its own window (as its iteration saw
\* them), and a change of one entry of one returned slice, nested or not,
\* changes that slice only.
C5_SlicesIndependent ==
    /\ slice_pc = "done" => Out = Product(Len(DefaultChunks), windows_seen)
    /\ slice_pc = "mutated" =>
          Cardinality({k \in 1..Len(Out) :
                          Out[k] # Product(Len(DefaultChunks), windows_seen)[k]}) = 1

\* A returned list of several slices per chunk, one of which then had a
\* component of its nested dateRange changed.
C5_Witness ==
    /\ slice_pc = "mutated"
    /\ Len(analytics_slices) >= 2 * Len(DefaultChunks)
    /\ \E k \in 1..Len(Out) : Out[k]["dateRange"]["start.day"] = 0

\* ------------------------------------------------------------------------
\* Properties of merge_chunks (SpecMerge)
\* ------------------------------------------------------------------------
\* The input records in traversal order, as they were at the call.
Flat == Flatten(chunked_result)

InputAt(i) == records0[Flat[i]]

HasKey(i) == merge_by_key \in DOMAIN InputAt(i)

\* The positions, among the first n, where a merge-key value is first seen.
FirstSightings(n) ==
    SelectSeq([i \in 1..n |-> i],
              LAMBDA i : \A j \in 1..(i - 1) : InputAt(j)[merge_by_key] # InputAt(i)[merge_by_key])

\* The positions, among the first n, of the records whose merge key is kv.
Sharing(kv, n) == {i \in 1..n : InputAt(i)[merge_by_key] = kv}

\* Field-wise union of those records, the last holder of a field giving it.
UnionLastWins(kv, n) ==
    [f \in UNION {DOMAIN InputAt(i) : i \in Sharing(kv, n)} |->
        LET holders == {i \in Sharing(kv, n) : f \in DOMAIN InputAt(i)}
            last == CHOOSE i \in holders : \A j \in holders : j <= i
        IN  InputAt(last)[f]]

\* C6: when every record carries the merge key, the call returns one merged
\* record per distinct merge-key value, in first-sighting order, each the
\* field-wise union of the partial records of that value, the last one in
\* traversal order giving a field they share; no input gives no output.
C6_OneMergedRecordPerKey ==
    (merge_pc # "call" /\ \A i \in 1..Len(Flat) : HasKey(i)) =>
        LET first == FirstSightings(Len(Flat))
        IN  /\ merge_pc = "returned"
            /\ Len(result) = Len(first)
            /\ \A n \in 1..Len(result) :
                  records[result[n]] =
                      UnionLastWins(InputAt(first[n])[merge_by_key], Len(Flat))
            /\ (Flat = << >> => result = << >>)

\* The spec's example: [{id:1,a:10},{id:2,a:20}] and [{id:1,b:100}] merged by
\* id give [{id:1,a:10,b:100},{id:2,a:20}].
C6_Witness ==
    /\ merge_pc = "returned"
    /\ Len(chunked_result) = 2
    /\ [i \in 1..Len(chunked_result[1]) |-> records0[chunked_result[1][i]]]
          = << ("id" :> 1) @@ ("a" :> 10), ("id" :> 2) @@ ("a" :> 20) >>
    /\ [i \in 1..Len(chunked_result[2]) |-> records0[chunked_result[2][i]]]
          = << ("id" :> 1) @@ ("b" :> 100) >>
    /\ [n \in 1..Len(result) |-> records[result[n]]]
          = << ("id" :> 1) @@ ("a" :> 10) @@ ("b" :> 100), ("id" :> 2) @@ ("a" :> 20) >>

\* C7: after the call returned or failed, every input record still has the
\* fields and values it had at the call.
C7_InputUnchanged ==
    merge_pc \in {"returned", "KeyError"} =>
        \A i \in 1..Len(Flat) : records[Flat[i]] = records0[Flat[i]]

\* The reported divergence of C7: [{id:1,a:10}] and [{id:1,b:100}] merged by
\* id leave the caller's first record as {id:1,a:10,b:100}.
C7_Example ==
    /\ merge_pc = "returned"
    /\ chunked_result = << <<1>>, <<2>> >>
    /\ records0 = << ("id" :> 1) @@ ("a" :> 10), ("id" :> 1) @@ ("b" :> 100) >>
    /\ records[1] = ("id" :> 1) @@ ("a" :> 10) @@ ("b" :> 100)
    /\ result = <<1>>

\* The position of the first record that lacks the merge key.
FirstKeyless == CHOOSE i \in 1..Len(Flat) : ~HasKey(i) /\ \A j \in 1..(i - 1) : HasKey(j)

\* C8: when some record lacks the merge key, the call fails with a KeyError
\* at the first such record: it returns nothing, and exactly the records
\* before that one have been folded, none being skipped or given a default
\* key.
C8_KeyErrorAtFirstKeyless ==
    (merge_pc # "call" /\ \E i \in 1..Len(Flat) : ~HasKey(i)) =>
        LET first == FirstSightings(FirstKeyless - 1)
        IN  /\ merge_pc = "KeyError"
            /\ result = << >>
            /\ [n \in 1..Len(merged) |-> merged[n].id] = [n \in 1..Len(first) |-> Flat[first[n]]]
            /\ \A n \in 1..Len(merged) :
                  /\ merged[n].key = InputAt(first[n])[merge_by_key]
                  /\ records[merged[n].id] = UnionLastWins(merged[n].key, FirstKeyless - 1)
            /\ \A i \in FirstKeyless..Len(Flat) : records[Flat[i]] = InputAt(i)

\* A failed call whose keyless record came third, after two records of one
\* key that had been folded into one.
C8_Witness ==
    /\ merge_pc = "KeyError"
    /\ FirstKeyless = 3
    /\ Len(merged) = 1
    /\ records[merged[1].id] # records0[merged[1].id]

====
